---- MODULE Spec2Model ----
(***************************************************************************)
(* Model of pyspider/result/convert.py: the field validators, the record   *)
(* validator validate_response and the record converter convert.           *)
(*                                                                         *)
(* A Python value is a record [type, s, n]: type is the Python type, s the  *)
(* characters of a str (a sequence of one-character strings), n the number  *)
(* of a float or an int.  A raw record (a dict) is a function from the key  *)
(* universe to values, the value Absent standing for a key the dict lacks.  *)
(* Timestamps are whole numbers of an abstract unit around the epoch.       *)
(***************************************************************************)
EXTENDS Integers, Sequences, FiniteSets, TLC

VARIABLES
    res,        \* the raw record handed to the call
    now,        \* what time.time() returned in the latest call (0: not read)
    pc,         \* where the caller is
    out,        \* the outcome of the latest validate_response call
    prev,       \* the outcome of the validate_response call before it
    called,     \* the field validator the caller applies on its own
    got,        \* the outcome of that field validator
    task,       \* convert's task
    timestamp,  \* convert's timestamp
    stored,     \* the documents convert returned, in call order
    given       \* convert's arguments as the caller passed them

vars == <<res, now, pc, out, prev, called, got, task, timestamp, stored, given>>

--------------------------------------------------------------------------
(* Python values *)

Absent == [type |-> "absent", s |-> <<>>, n |-> 0]

NoneV == [type |-> "none", s |-> <<>>, n |-> 0]

Str(chars) == [type |-> "str", s |-> chars, n |-> 0]

FloatV(x) == [type |-> "float", s |-> <<>>, n |-> x]

IntV(x) == [type |-> "int", s |-> <<>>, n |-> x]

\* bool(v): None, the empty str and a zero number are falsy.
Truthy(v) ==
    CASE v.type = "none" -> FALSE
      [] v.type = "str" -> v.s # <<>>
      [] OTHER -> v.n # 0

\* a or b
Or(a, b) == IF Truthy(a) THEN a ELSE b

\* result.get(key, default)
GetDefault(result, key, default) ==
    IF result[key] = Absent THEN default ELSE result[key]

\* result.get(key, None)
Get(result, key) == GetDefault(result, key, NoneV)

--------------------------------------------------------------------------
(* str.strip() and the compiled patterns *)

Whitespace == {" ", "\t", "\n", "\r"}

Lower == {"a", "b", "c", "d", "e", "f", "g", "h", "i", "j", "k", "l", "m",
          "n", "o", "p", "q", "r", "s", "t", "u", "v", "w", "x", "y", "z"}

Upper == {"A", "B", "C", "D", "E", "F", "G", "H", "I", "J", "K", "L", "M",
          "N", "O", "P", "Q", "R", "S", "T", "U", "V", "W", "X", "Y", "Z"}

RECURSIVE lstrip(_)
lstrip(chars) ==
    IF chars # <<>> /\ Head(chars) \in Whitespace
    THEN lstrip(Tail(chars))
    ELSE chars

RECURSIVE rstrip(_)
rstrip(chars) ==
    IF chars # <<>> /\ chars[Len(chars)] \in Whitespace
    THEN rstrip(SubSeq(chars, 1, Len(chars) - 1))
    ELSE chars

strip(chars) == rstrip(lstrip(chars))

\* re.compile("[a-z][a-z]").match(chars): a match at the start, not anchored
\* at the end.
simple_re(chars) ==
    Len(chars) >= 2 /\ chars[1] \in Lower /\ chars[2] \in Lower

\* re.compile("[a-z][a-z]-[A-Z][A-Z]").match(chars)
locale_re(chars) ==
    /\ Len(chars) >= 5
    /\ chars[1] \in Lower /\ chars[2] \in Lower
    /\ chars[3] = "-"
    /\ chars[4] \in Upper /\ chars[5] \in Upper

\* re.compile("[A-Z][A-Z]").match(chars)
iso3166_re(chars) ==
    Len(chars) >= 2 /\ chars[1] \in Upper /\ chars[2] \in Upper

--------------------------------------------------------------------------
(* Taxonomy tables *)

SOURCE_TYPES ==
    << <<"U","N","D","E","F","I","N","E","D">>,
       <<"R","E","G","U","L","A","T","O","R","Y","_",
         "E","N","F","O","R","C","E","M","E","N","T">>,
       <<"L","A","W","_","E","N","F","O","R","C","E","M","E","N","T">>,
       <<"J","U","D","I","C","I","A","R","Y","_","C","O","U","R","T","_",
         "R","E","C","O","R","D","S">>,
       <<"N","O","N","G","O","V","_","O","R","G">> >>

DOCUMENT_TYPES ==
    << <<"U","N","K","N","O","W","N">>,
       <<"N","E","W","S">>,
       <<"P","R","E","S","S","_","R","E","L","E","A","S","E">>,
       <<"C","O","M","M","E","N","T">>,
       <<"A","L","E","R","T">>,
       <<"L","I","T","I","G","A","T","I","O","N">>,
       <<"O","T","H","E","R">> >>

IMPORTANCE == << <<"L","O","W">>, <<"M","E","D","I","U","M">>, <<"H","I","G","H">> >>

\* v in LIST: a str equal to one of the list's entries (a number or None
\* equals none of them).
InList(v, list) ==
    v.type = "str" /\ \E i \in 1..Len(list) : list[i] = v.s

--------------------------------------------------------------------------
(* Outcome of a call: a returned value or a raised exception.  The err of a *)
(* ValueError is its message; an AttributeError (strip of a value that is   *)
(* no str) and a TypeError (pattern match of a value that is no str) carry  *)
(* the exception's name.                                                    *)

Return(v) == [ok |-> TRUE, val |-> v, err |-> ""]

Raise(e) == [ok |-> FALSE, val |-> NoneV, err |-> e]

AttributeError == "AttributeError"

TypeError == "TypeError"

--------------------------------------------------------------------------
(* Date Normalizer.  dateutil's fuzzy parser is a library outside the       *)
(* repository; its result on a text is given by a table: a text with a date *)
(* has the timestamp of that date (before, at or after the epoch), any     *)
(* other text raises ParserError, which parsedate turns into None.         *)

Date1969 == <<"1","9","6","9">>

Date1970 == <<"1","9","7","0">>

Date1971 == <<"1","9","7","1">>

parse(chars) ==
    CASE chars = Date1969 -> FloatV(-1)
      [] chars = Date1970 -> FloatV(0)
      [] chars = Date1971 -> FloatV(1)
      [] OTHER -> NoneV

parsedate(txt) == parse(txt)

--------------------------------------------------------------------------
(* Field Validators *)

\* validate_institution_name with the two keys read in the other order.
validate_institution_name_swapped(result) ==
    LET iname == Or(Get(result, "name"), Get(result, "institution_name"))
    IN  IF iname = NoneV \/ ~Truthy(iname)
        THEN Raise("Institution name missing")
        ELSE IF iname.type = "str"
             THEN Return(Str(strip(iname.s)))
             ELSE Raise(AttributeError)

validate_institution_name(result) ==
    LET iname == Or(Get(result, "institution_name"), Get(result, "name"))
    IN  IF iname = NoneV \/ ~Truthy(iname)
        THEN Raise("Institution name missing")
        ELSE IF iname.type = "str"
             THEN Return(Str(strip(iname.s)))
             ELSE Raise(AttributeError)

validate_short_institution_name(result) ==
    LET sn == Or(Or(Get(result, "short_institution_name"),
                    Get(result, "short_name")),
                 Get(result, "short"))
    IN  IF sn = NoneV \/ ~Truthy(sn)
        THEN Raise("Short institution name missing")
        ELSE IF sn.type = "str"
             THEN Return(Str(strip(sn.s)))
             ELSE Raise(AttributeError)

validate_source_type(result) ==
    LET st == Get(result, "source_type")
    IN  IF st = NoneV \/ ~InList(st, SOURCE_TYPES)
        THEN Return(Str(SOURCE_TYPES[1]))
        ELSE Return(st)

validate_document_type(result) ==
    LET dt == Get(result, "document_type")
    IN  IF dt = NoneV \/ ~InList(dt, DOCUMENT_TYPES)
        THEN Return(Str(DOCUMENT_TYPES[1]))
        ELSE Return(dt)

\* validate_importance without the membership test.
validate_importance_unchecked(result) ==
    Return(GetDefault(result, "importance", Str(<<"L","O","W">>)))

validate_importance(result) ==
    LET imp == GetDefault(result, "importance", Str(<<"L","O","W">>))
    IN  IF ~InList(imp, IMPORTANCE)
        THEN Return(Str(<<"L","O","W">>))
        ELSE Return(imp)

\* validate_published with pub >= 0.0 for pub > 0.0.
validate_published_nonnegative(result, time_now) ==
    LET pub == Get(result, "published")
    IN  IF pub = NoneV
        THEN Return(FloatV(time_now))
        ELSE IF pub.type = "str"
             THEN LET guess == parsedate(pub.s)
                  IN  IF guess = NoneV
                      THEN Return(FloatV(time_now))
                      ELSE Return(guess)
             ELSE IF pub.type = "float" /\ pub.n >= 0
                  THEN Return(pub)
                  ELSE Raise("Published time should be a timestamp (float)")

\* time_now is the value time.time() returns in this call.
validate_published(result, time_now) ==
    LET pub == Get(result, "published")
    IN  IF pub = NoneV
        THEN Return(FloatV(time_now))
        ELSE IF pub.type = "str"
             THEN LET guess == parsedate(pub.s)
                  IN  IF guess = NoneV
                      THEN Return(FloatV(time_now))
                      ELSE IF guess.type = "float"
                           THEN Return(guess)
                           ELSE Return(FloatV(time_now))
             ELSE IF pub.type = "float" /\ pub.n > 0
                  THEN Return(pub)
                  ELSE Raise("Published time should be a timestamp (float)")

validate_title(result) ==
    LET t == GetDefault(result, "title", Str(<<>>))
    IN  IF t.type = "str"
        THEN Return(Str(strip(t.s)))
        ELSE Raise(AttributeError)

\* validate_body with the emptiness test made before the strip.
validate_body_unstripped(result) ==
    LET b == Get(result, "body")
    IN  IF b = NoneV
        THEN Raise("Missing body in response")
        ELSE IF b.type # "str"
             THEN Raise(AttributeError)
             ELSE IF b.s = <<>>
                  THEN Raise("Empty body")
                  ELSE Return(Str(strip(b.s)))

validate_body(result) ==
    LET b == Get(result, "body")
    IN  IF b = NoneV
        THEN Raise("Missing body in response")
        ELSE IF b.type # "str"
             THEN Raise(AttributeError)
             ELSE IF strip(b.s) = <<>>
                  THEN Raise("Empty body")
                  ELSE Return(Str(strip(b.s)))

validate_lang(result) ==
    LET lang == Or(Or(Or(Get(result, "expected_language_code"),
                         Get(result, "lang_code")),
                      Get(result, "lang")),
                   Get(result, "language"))
    IN  IF lang = NoneV
        THEN Raise("Language code not provided")
        ELSE IF lang.type # "str"
             THEN Raise(TypeError)
             ELSE IF simple_re(lang.s)
                  THEN Return(lang)
                  ELSE IF locale_re(lang.s)
                       THEN Return(lang)
                       ELSE Raise("Wrong language code value")

validate_jurisdiction(result) ==
    LET jur == Or(Get(result, "jurisdiction"), Get(result, "country"))
    IN  IF jur = NoneV
        THEN Raise("Jurisdiction is not defined")
        ELSE IF jur.type # "str"
             THEN Raise(AttributeError)
             ELSE IF strip(jur.s) = <<>>
                  THEN Raise("Jurisdiction is empty")
                  ELSE IF ~iso3166_re(strip(jur.s))
                       THEN Raise("Wrong ISO 3166 code")
                       ELSE Return(Str(strip(jur.s)))

validate_jurisdiction_state(result) ==
    LET jurs == Or(Get(result, "jurisdiction_state"), Get(result, "state"))
    IN  IF jurs = NoneV
        THEN Return(NoneV)
        ELSE IF jurs.type # "str"
             THEN Raise(AttributeError)
             ELSE IF strip(jurs.s) = <<>>
                  THEN Return(NoneV)
                  ELSE Return(Str(strip(jurs.s)))

validate_jurisdiction_municipality(result) ==
    LET jurm == Or(Or(Get(result, "jurisdiction_municipality"),
                      Get(result, "municipality")),
                   Get(result, "town"))
    IN  IF jurm = NoneV
        THEN Return(NoneV)
        ELSE IF jurm.type # "str"
             THEN Raise(AttributeError)
             ELSE IF strip(jurm.s) = <<>>
                  THEN Return(NoneV)
                  ELSE Return(Str(strip(jurm.s)))

--------------------------------------------------------------------------
(* Record Validator *)

\* The dict display with the body entry written before the published entry.
OrderBodyFirst ==
    << "body", "published", "title", "name", "short_name", "source_type",
       "document_type", "lang_code", "jurisdiction", "jurisdiction_state",
       "jurisdiction_municipality", "importance" >>

\* The keys of the canonical document, in the order of the dict display.
Order ==
    << "published", "title", "body", "name", "short_name", "source_type",
       "document_type", "lang_code", "jurisdiction", "jurisdiction_state",
       "jurisdiction_municipality", "importance" >>

Fields == {Order[i] : i \in 1..Len(Order)}

\* The call the dict display makes for one key.
RunValidator(field, result, time_now) ==
    CASE field = "published" -> validate_published(result, time_now)
      [] field = "title" -> validate_title(result)
      [] field = "body" -> validate_body(result)
      [] field = "name" -> validate_institution_name(result)
      [] field = "short_name" -> validate_short_institution_name(result)
      [] field = "source_type" -> validate_source_type(result)
      [] field = "document_type" -> validate_document_type(result)
      [] field = "lang_code" -> validate_lang(result)
      [] field = "jurisdiction" -> validate_jurisdiction(result)
      [] field = "jurisdiction_state" -> validate_jurisdiction_state(result)
      [] field = "jurisdiction_municipality" ->
            validate_jurisdiction_municipality(result)
      [] field = "importance" -> validate_importance(result)

\* No document: what the caller holds when the call raised.
NoDoc == [f \in Fields |-> Absent]

NoOutcome == [ok |-> FALSE, doc |-> NoDoc, err |-> ""]

\* The dict display evaluates its values from the first key to the last; an
\* exception in one of them leaves the display, and the function, at once.
RECURSIVE Display(_, _, _, _)
Display(i, result, time_now, doc) ==
    IF i > Len(Order)
    THEN [ok |-> TRUE, doc |-> doc, err |-> ""]
    ELSE LET r == RunValidator(Order[i], result, time_now)
         IN  IF r.ok
             THEN Display(i + 1, result, time_now,
                          [doc EXCEPT ![Order[i]] = r.val])
             ELSE [ok |-> FALSE, doc |-> NoDoc, err |-> r.err]

validate_response(result, time_now) == Display(1, result, time_now, NoDoc)

--------------------------------------------------------------------------
(* Raw records *)

\* Every key a validator reads.
Keys ==
    { "published", "title", "body", "institution_name", "name",
      "short_institution_name", "short_name", "short", "source_type",
      "document_type", "expected_language_code", "lang_code", "lang",
      "language", "jurisdiction", "country", "jurisdiction_state", "state",
      "jurisdiction_municipality", "municipality", "town", "importance" }

\* The keys convert sets, and a key nothing reads.
StorageKeys == {"id", "url", "version", "crawled"}

AllKeys == Keys \cup StorageKeys \cup {"extra"}

\* The record that validates: body x, name A, short_name a, lang en,
\* jurisdiction US; every other key absent.
Base ==
    [k \in AllKeys |->
        CASE k = "body" -> Str(<<"x">>)
          [] k = "name" -> Str(<<"A">>)
          [] k = "short_name" -> Str(<<"a">>)
          [] k = "lang" -> Str(<<"e","n">>)
          [] k = "jurisdiction" -> Str(<<"U","S">>)
          [] OTHER -> Absent]

\* Values any key may hold: absent, None, empty and blank text, a lowercase
\* code, an uppercase code between blanks, and numbers.
CommonValues ==
    { Absent, NoneV, Str(<<>>), Str(<<" ">>), Str(<<"e","n">>),
      Str(<<" ","U","S"," ">>), FloatV(1), FloatV(0), IntV(1) }

\* Values that matter to the validator reading the key.
ExtraValues(k) ==
    CASE k = "published" ->
            { FloatV(-1), FloatV(2), IntV(0), IntV(-1),
              Str(Date1969), Str(Date1970), Str(Date1971) }
      [] k \in {"expected_language_code", "lang_code", "lang", "language"} ->
            { Str(<<"E","N">>), Str(<<"e","n","-","U","S">>),
              Str(<<" ","e","n">>) }
      [] k \in {"jurisdiction", "country"} ->
            { Str(<<"U","S">>), Str(<<"u","s">>) }
      [] k = "source_type" ->
            { Str(SOURCE_TYPES[1]), Str(SOURCE_TYPES[5]), Str(IMPORTANCE[3]) }
      [] k = "document_type" ->
            { Str(DOCUMENT_TYPES[1]), Str(DOCUMENT_TYPES[2]),
              Str(SOURCE_TYPES[5]) }
      [] k = "importance" ->
            { Str(IMPORTANCE[1]), Str(IMPORTANCE[3]), Str(DOCUMENT_TYPES[2]) }
      [] OTHER -> {}

KeyValues(k) == CommonValues \cup ExtraValues(k)

\* The values a key takes in the records handed to validate_response: one
\* value for each way its validator can go.
PipelineValues(k) ==
    {Absent, NoneV, Str(<<>>), Str(<<" ">>), FloatV(1)} \cup
    CASE k = "published" ->
            {FloatV(-1), IntV(1), Str(Date1969), Str(Date1971)}
      [] k = "lang" -> {Str(<<"E","N">>)}
      [] k = "jurisdiction" -> {Str(<<"u","s">>)}
      [] k = "institution_name" -> {Str(<<" ","B"," ">>)}
      [] k = "source_type" -> {Str(SOURCE_TYPES[5])}
      [] k = "document_type" -> {Str(DOCUMENT_TYPES[2])}
      [] k = "importance" -> {Str(IMPORTANCE[3])}
      [] OTHER -> {}

\* Every assignment of one key of a record handed to validate_response.
Assignments == UNION { {<<k, v>> : v \in PipelineValues(k)} : k \in Keys }

MaxPerturb == 2

MaxNow == 2

\* The record r after the assignments f[1], ..., f[i].
RECURSIVE Assign(_, _, _)
Assign(r, f, i) ==
    IF i = 0 THEN r
    ELSE [Assign(r, f, i - 1) EXCEPT ![f[i][1]] = f[i][2]]

\* The returned document handed back as a raw record.
AsRecord(doc) == [k \in AllKeys |-> IF k \in Fields THEN doc[k] ELSE Absent]

NoTask == [taskid |-> <<>>, url |-> <<>>]

--------------------------------------------------------------------------
(* The record validator applied to a raw record, and applied again to the   *)
(* document it returned.                                                    *)

NoGot == Raise("")

NoArgs == [task |-> NoTask, result |-> Base, timestamp |-> 0]

Init ==
    /\ \E f \in [1..MaxPerturb -> Assignments] :
          res = Assign(Base, f, MaxPerturb)
    /\ now = 0
    /\ pc = "start"
    /\ out = NoOutcome
    /\ prev = NoOutcome
    /\ called = ""
    /\ got = NoGot
    /\ task = NoTask
    /\ timestamp = 0
    /\ stored = <<>>
    /\ given = NoArgs

\* validate_response(res); time.time() is the wall clock, read in the call.
Validate ==
    /\ pc = "start"
    /\ \E t \in 1..MaxNow :
          /\ now' = t
          /\ out' = validate_response(res, t)
    /\ pc' = "validated"
    /\ UNCHANGED <<res, prev, called, got, task, timestamp, stored, given>>

\* validate_response(doc) for the document doc the call before returned.
Revalidate ==
    /\ pc = "validated"
    /\ out.ok
    /\ res' = AsRecord(out.doc)
    /\ prev' = out
    /\ \E t \in 1..MaxNow :
          /\ now' = t
          /\ out' = validate_response(AsRecord(out.doc), t)
    /\ pc' = "revalidated"
    /\ UNCHANGED <<called, got, task, timestamp, stored, given>>

Next == Validate \/ Revalidate

Spec == Init /\ [][Next]_vars

--------------------------------------------------------------------------
(* One field validator applied to a raw record: the record holds every     *)
(* combination of values under the keys the validator reads.                *)

\* The keys a field's validator reads, in the order it reads them.
Aliases(field) ==
    CASE field = "published" -> <<"published">>
      [] field = "title" -> <<"title">>
      [] field = "body" -> <<"body">>
      [] field = "name" -> <<"institution_name", "name">>
      [] field = "short_name" ->
            <<"short_institution_name", "short_name", "short">>
      [] field = "source_type" -> <<"source_type">>
      [] field = "document_type" -> <<"document_type">>
      [] field = "lang_code" ->
            <<"expected_language_code", "lang_code", "lang", "language">>
      [] field = "jurisdiction" -> <<"jurisdiction", "country">>
      [] field = "jurisdiction_state" -> <<"jurisdiction_state", "state">>
      [] field = "jurisdiction_municipality" ->
            <<"jurisdiction_municipality", "municipality", "town">>
      [] field = "importance" -> <<"importance">>

AliasKeys(field) == {Aliases(field)[i] : i \in 1..Len(Aliases(field))}

InitValidators ==
    /\ \E field \in Fields :
          /\ called = field
          /\ \E g \in [AliasKeys(field) -> KeyValues(Aliases(field)[1])] :
                res = [k \in AllKeys |->
                          IF k \in AliasKeys(field) THEN g[k] ELSE Base[k]]
    /\ now = 0
    /\ pc = "call"
    /\ out = NoOutcome
    /\ prev = NoOutcome
    /\ got = NoGot
    /\ task = NoTask
    /\ timestamp = 0
    /\ stored = <<>>
    /\ given = NoArgs

CallValidator ==
    /\ pc = "call"
    /\ \E t \in 1..MaxNow :
          /\ now' = t
          /\ got' = RunValidator(called, res, t)
    /\ pc' = "called"
    /\ UNCHANGED <<res, out, prev, called, task, timestamp, stored, given>>

NextValidators == CallValidator

SpecValidators == InitValidators /\ [][NextValidators]_vars

--------------------------------------------------------------------------
(* Record Converter *)

\* convert with **result written after the four keys: the record's own id,
\* url, version and crawled survive.
convert_record_last(task_, result, timestamp_) ==
    [k \in AllKeys |->
        IF result[k] # Absent THEN result[k]
        ELSE CASE k = "id" -> task_.taskid
               [] k = "url" -> task_.url
               [] k = "version" -> FloatV(timestamp_)
               [] k = "crawled" -> FloatV(timestamp_)
               [] OTHER -> Absent]

convert(task_, result, timestamp_) ==
    [k \in AllKeys |->
        CASE k = "id" -> task_.taskid
          [] k = "url" -> task_.url
          [] k = "version" -> FloatV(timestamp_)
          [] k = "crawled" -> FloatV(timestamp_)
          [] OTHER -> result[k]]

\* The keys of the records handed to convert, and the values under them.
ConvertKeys == StorageKeys \cup {"extra", "title"}

ConvertAssignments ==
    {<<k, v>> : k \in ConvertKeys,
                v \in {Absent, NoneV, Str(<<"T">>), FloatV(1)}}

Tasks ==
    [taskid : {Str(<<"t","1">>), Str(<<"t","2">>)},
     url : {Str(<<"h","t","t","p",":","/","/","x">>), Str(<<>>)}]

MaxCalls == 2

InitConvert ==
    /\ \E f \in [1..MaxPerturb -> ConvertAssignments] :
          res = Assign(Base, f, MaxPerturb)
    /\ task \in Tasks
    /\ timestamp \in 1..MaxNow
    /\ given = [task |-> task, result |-> res, timestamp |-> timestamp]
    /\ now = 0
    /\ pc = "convert"
    /\ out = NoOutcome
    /\ prev = NoOutcome
    /\ called = ""
    /\ got = NoGot
    /\ stored = <<>>

\* convert(task, res, timestamp): a new dict is returned, the arguments are
\* only read.
Convert ==
    /\ pc = "convert"
    /\ Len(stored) < MaxCalls
    /\ stored' = Append(stored, convert(task, res, timestamp))
    /\ UNCHANGED <<res, now, pc, out, prev, called, got, task, timestamp, given>>

NextConvert == Convert

SpecConvert == InitConvert /\ [][NextConvert]_vars

--------------------------------------------------------------------------
(* Properties of validate_response *)

Validated == pc \in {"validated", "revalidated"}

\* The order in which the validators are said to run.
StatedOrder ==
    << "published", "title", "body", "name", "short_name", "source_type",
       "document_type", "lang_code", "jurisdiction", "jurisdiction_state",
       "jurisdiction_municipality", "importance" >>

\* The validator of the i-th field of the stated order fails on the record.
FailsAt(i) == ~RunValidator(StatedOrder[i], res, now).ok

\* C1: whenever one or more validators fail on the record, validate_response
\* raises the error of the earliest failing validator in the order published,
\* title, body, name, short_name, source_type, document_type, lang_code,
\* jurisdiction, jurisdiction_state, jurisdiction_municipality, importance,
\* and returns no document; when none fails it returns a document.
C1_FirstErrorWins ==
    Validated =>
        /\ \A i \in 1..Len(StatedOrder) :
              (FailsAt(i) /\ \A j \in 1..(i - 1) : ~FailsAt(j)) =>
                 /\ ~out.ok
                 /\ out.err = RunValidator(StatedOrder[i], res, now).err
                 /\ out.doc = NoDoc
        /\ (\A i \in 1..Len(StatedOrder) : ~FailsAt(i)) => out.ok

\* C1 witness: published and body are both invalid and the error raised is
\* the one of published.
C1_Witness ==
    /\ pc = "validated"
    /\ ~validate_published(res, now).ok
    /\ ~validate_body(res).ok
    /\ ~out.ok
    /\ out.err = "Published time should be a timestamp (float)"

BodyMissing == res["body"] = Absent

BodyBlank == res["body"].type = "str" /\ strip(res["body"].s) = <<>>

\* C2 as stated: a record missing body fails with "Missing body in response"
\* and a record whose body is blank fails with "Empty body", whatever the
\* other fields hold.
C2_AsStated ==
    Validated =>
        /\ BodyMissing => (~out.ok /\ out.err = "Missing body in response")
        /\ BodyBlank => (~out.ok /\ out.err = "Empty body")

\* The validators that run before body's both succeed.
BeforeBodyOk == validate_published(res, now).ok /\ validate_title(res).ok

\* The error of the first of published and title that fails.
BeforeBodyErr ==
    IF ~validate_published(res, now).ok
    THEN validate_published(res, now).err
    ELSE validate_title(res).err

\* C2 amended: a record missing body, or whose body is blank, always fails;
\* the error is "Missing body in response", respectively "Empty body", when
\* the published and title validators succeed, and otherwise the error of the
\* first of these two that fails.
C2_BodyAfterPublishedAndTitle ==
    Validated =>
        /\ BodyMissing =>
              /\ ~out.ok
              /\ out.err = IF BeforeBodyOk THEN "Missing body in response"
                           ELSE BeforeBodyErr
        /\ BodyBlank =>
              /\ ~out.ok
              /\ out.err = IF BeforeBodyOk THEN "Empty body"
                           ELSE BeforeBodyErr

\* C2 witness: a blank body and an invalid language code at once; the error
\* is the body's.
C2_Witness ==
    /\ pc = "validated"
    /\ res["body"] = Str(<<" ">>)
    /\ ~validate_lang(res).ok
    /\ out = [ok |-> FALSE, doc |-> NoDoc, err |-> "Empty body"]

\* C10: a document validate_response returned, handed back to
\* validate_response, is returned again with the same twelve values.
C10_FixedPoint ==
    pc = "revalidated" => (out.ok /\ out.doc = prev.doc)

--------------------------------------------------------------------------
(* Properties of the field validators *)

Called(field) == pc = "called" /\ called = field

InvalidType == Raise("Published time should be a timestamp (float)")

\* What is said of a value under published that is a str.
PublishedOfText(pub) ==
    IF parsedate(pub.s) # NoneV
    THEN got = Return(parsedate(pub.s))
    ELSE got = Return(FloatV(now))

\* C3 as stated (a key holding None read as an absent key): absent -> the
\* current time; a str -> the parsed timestamp, or the current time when the
\* parse fails; any number > 0 -> that number; any number <= 0 -> the error
\* "Published time should be a timestamp (float)".
C3_AsStated ==
    Called("published") =>
        LET pub == res["published"]
        IN  /\ pub \in {Absent, NoneV} => got = Return(FloatV(now))
            /\ pub.type = "str" => PublishedOfText(pub)
            /\ (pub.type \in {"float", "int"} /\ pub.n > 0) => got = Return(pub)
            /\ (pub.type \in {"float", "int"} /\ pub.n <= 0) => got = InvalidType

\* C3 amended: absent or None -> the current time; a str -> the parsed
\* timestamp, or the current time when the parse fails; a float > 0 -> that
\* float; a float <= 0 and every int, positive or not -> the error
\* "Published time should be a timestamp (float)".
C3_FloatOnly ==
    Called("published") =>
        LET pub == res["published"]
        IN  /\ pub \in {Absent, NoneV} => got = Return(FloatV(now))
            /\ pub.type = "str" => PublishedOfText(pub)
            /\ (pub.type = "float" /\ pub.n > 0) => got = Return(pub)
            /\ (pub.type = "float" /\ pub.n <= 0) => got = InvalidType
            /\ pub.type = "int" => got = InvalidType

\* C3 witness: the positive int 1 under published is rejected.
C3_Witness ==
    /\ Called("published")
    /\ res["published"] = IntV(1)
    /\ got = InvalidType

\* The first key of the list, by position, holding a non-empty (truthy)
\* value in the record; 0 when no key does.
FirstNonEmpty(keys) ==
    IF \E i \in 1..Len(keys) : Truthy(Get(res, keys[i]))
    THEN CHOOSE i \in 1..Len(keys) :
            /\ Truthy(Get(res, keys[i]))
            /\ \A j \in 1..(i - 1) : ~Truthy(Get(res, keys[j]))
    ELSE 0

\* The value the keys resolve to as the Field Resolver is described: the
\* first non-empty value, or None.
Resolved(keys) ==
    IF FirstNonEmpty(keys) = 0 THEN NoneV
    ELSE res[keys[FirstNonEmpty(keys)]]

NameAliases == <<"institution_name", "name">>

ShortNameAliases == <<"short_institution_name", "short_name", "short">>

NameMissing(field) ==
    IF field = "name" THEN Raise("Institution name missing")
    ELSE Raise("Short institution name missing")

\* What C4 says of one of the two name validators, for the text values.
NameAsStated(field, keys) ==
    (Called(field) /\ Resolved(keys).type \in {"none", "str"}) =>
        /\ (Resolved(keys) = NoneV \/ strip(Resolved(keys).s) = <<>>)
              => got = NameMissing(field)
        /\ got.ok => (got.val.type = "str" /\ got.val.s # <<>>
                      /\ strip(got.val.s) = got.val.s)

\* C4: the name and short_name validators raise "... name missing" whenever
\* the resolved value is absent or empty after trimming, so the name they
\* return is a non-empty trimmed str.
C4_MissingWhenBlank ==
    /\ NameAsStated("name", NameAliases)
    /\ NameAsStated("short_name", ShortNameAliases)

LangAliases == <<"expected_language_code", "lang_code", "lang", "language">>

\* C5, for records whose four language keys hold text or nothing: the error
\* is "Language code not provided" exactly when none of the four keys holds a
\* non-empty value; otherwise the resolved value is returned when it starts
\* with two lowercase letters, and "Wrong language code value" is raised when
\* it does not.
C5_MissingExactlyWhenNoneFound ==
    (Called("lang_code")
       /\ \A i \in 1..4 : Get(res, LangAliases[i]).type \in {"none", "str"}) =>
        LET lang == Resolved(LangAliases)
        IN  /\ (got = Raise("Language code not provided")) <=> (lang = NoneV)
            /\ (lang # NoneV /\ simple_re(lang.s)) => got = Return(lang)
            /\ (lang # NoneV /\ ~simple_re(lang.s))
                  => got = Raise("Wrong language code value")

\* The entries of a taxonomy table.
Members(list) == {list[i] : i \in 1..Len(list)}

\* What C6 says of one validator: it returns, never raises; the value is the
\* input when the input is an entry of the table and the default otherwise.
TaxonomyAsStated(field, list, default) ==
    Called(field) =>
        /\ got.ok
        /\ got.val.type = "str" /\ got.val.s \in Members(list)
        /\ IF res[field].type = "str" /\ res[field].s \in Members(list)
           THEN got.val = res[field]
           ELSE got.val = Str(default)

\* C6: the source_type, document_type and importance validators never fail
\* and return a member of SOURCE_TYPES / DOCUMENT_TYPES / IMPORTANCE: the
\* input when it is a member, else UNDEFINED / UNKNOWN / LOW.
C6_TaxonomyDefaults ==
    /\ TaxonomyAsStated("source_type", SOURCE_TYPES,
                        <<"U","N","D","E","F","I","N","E","D">>)
    /\ TaxonomyAsStated("document_type", DOCUMENT_TYPES,
                        <<"U","N","K","N","O","W","N">>)
    /\ TaxonomyAsStated("importance", IMPORTANCE, <<"L","O","W">>)

\* C6 witness: a source_type that is an importance level, not a source type,
\* comes back as UNDEFINED.
C6_Witness ==
    /\ Called("source_type")
    /\ res["source_type"] = Str(<<"H","I","G","H">>)
    /\ got = Return(Str(<<"U","N","D","E","F","I","N","E","D">>))

AliasedFields ==
    { "name", "short_name", "lang_code", "jurisdiction",
      "jurisdiction_state", "jurisdiction_municipality" }

\* The record with every key of the list but the i-th removed.
OnlyAlias(keys, i) ==
    [k \in AllKeys |->
        IF \E j \in 1..Len(keys) : j # i /\ keys[j] = k
        THEN Absent ELSE res[k]]

\* C7: when one of an aliased field's keys holds a non-empty value, the
\* validator's outcome is its outcome on the record that holds only the first
\* such key of the alias list: the later aliases, and the empty earlier ones,
\* change nothing.  With name and institution_name both populated the name
\* is the trimmed institution_name.
C7_FirstAliasWins ==
    /\ \A field \in AliasedFields :
          (Called(field) /\ FirstNonEmpty(Aliases(field)) # 0) =>
             got = RunValidator(field,
                       OnlyAlias(Aliases(field), FirstNonEmpty(Aliases(field))),
                       now)
    /\ (Called("name") /\ Truthy(Get(res, "institution_name"))
          /\ res["institution_name"].type = "str"
          /\ Truthy(Get(res, "name")))
          => got = Return(Str(strip(res["institution_name"].s)))

\* C7 witness: expected_language_code is empty, lang_code absent, lang is en
\* and language is EN; the language returned is en.
C7_Witness ==
    /\ Called("lang_code")
    /\ res["expected_language_code"] = Str(<<>>)
    /\ res["lang_code"] = Absent
    /\ res["lang"] = Str(<<"e","n">>)
    /\ res["language"] = Str(<<"E","N">>)
    /\ got = Return(Str(<<"e","n">>))

\* The values C9 speaks of: strings, numbers, None (or no value).
Scalar(v) == v.type \in {"absent", "none", "str", "float", "int"}

\* What C9 says of the two optional jurisdiction validators.
OptionalAsStated(field) ==
    (Called(field) /\ \A i \in 1..Len(Aliases(field)) :
                          Scalar(res[Aliases(field)[i]])) =>
        /\ got.ok
        /\ got.val = NoneV \/ (got.val.type = "str" /\ got.val.s # <<>>)

\* C9: on records holding strings, numbers or None the title validator
\* returns a trimmed str (the empty str when title is missing or empty), and
\* the jurisdiction_state and jurisdiction_municipality validators return a
\* trimmed str or None; none of the three raises.
C9_OptionalNeverFail ==
    /\ (Called("title") /\ Scalar(res["title"])) =>
          (got.ok /\ got.val.type = "str" /\ strip(got.val.s) = got.val.s)
    /\ OptionalAsStated("jurisdiction_state")
    /\ OptionalAsStated("jurisdiction_municipality")

--------------------------------------------------------------------------
(* Properties of convert *)

\* C8: every document convert returned holds id = task.taskid, url =
\* task.url, version = crawled = timestamp, whatever the record held under
\* these keys, and under every other key exactly what the record holds (a key
\* the record lacks is lacking); two calls return the same document, and the
\* record, the task and the timestamp are as they were passed.
C8_ConvertMerges ==
    /\ \A i \in 1..Len(stored) :
          /\ stored[i]["id"] = given.task.taskid
          /\ stored[i]["url"] = given.task.url
          /\ stored[i]["version"] = FloatV(given.timestamp)
          /\ stored[i]["crawled"] = FloatV(given.timestamp)
          /\ \A k \in AllKeys \ StorageKeys : stored[i][k] = given.result[k]
    /\ \A i, j \in 1..Len(stored) : stored[i] = stored[j]
    /\ pc = "convert" =>
          (res = given.result /\ task = given.task
           /\ timestamp = given.timestamp)

\* C8 witness: two calls on a record that holds an id and a version of its
\* own, both replaced in the document.
C8_Witness ==
    /\ pc = "convert"
    /\ Len(stored) = 2
    /\ res["id"] = Str(<<"T">>)
    /\ res["version"] = NoneV
    /\ stored[2]["id"] = task.taskid
    /\ stored[2]["version"] = FloatV(timestamp)

====
